---- MODULE Spec2Model ----
(***************************************************************************)
(* Inbox reconciliation of the federation endpoint: the inbox listeners    *)
(* (Follow, Accept, Reject, Like, Announce, Delete, Undo) and the Note     *)
(* object dispatcher, over the relational state they read and write        *)
(* (accounts, follows, posts, likes); and the OAuth endpoints              *)
(* POST /oauth/authorize and POST /oauth/token over the access tokens.     *)
(***************************************************************************)
EXTENDS Integers, FiniteSets, Sequences, TLC

VARIABLES
  accounts,   \* accounts table: account IRI -> row
  follows,    \* follows table: set of rows
  posts,      \* posts table: post IRI -> row
  likes,      \* likes table: set of rows
  last,       \* what the handler that ran last was given and what it did
  inflight,   \* handlers running concurrently: handler -> position and locals
  accessTokens, \* access_tokens table: set of rows
  response    \* the OAuth request handled last and the response to it

\* The state of the OAuth endpoints, and the state of the inbox.
oauthVars == <<accessTokens, response>>
inboxVars == <<accounts, follows, posts, likes, last, inflight>>

vars == <<accounts, follows, posts, likes, last, inflight, accessTokens,
          response>>

-----------------------------------------------------------------------------
(* Bounds of the model *)

\* Follow activity IRIs are F1..Fn, n = NumFollowIris.
NumFollowIris == 2
\* Announce activity IRIs are A1..An, n = NumAnnounceIris.
NumAnnounceIris == 2
\* Undo(Announce) is not explored below a sharesCount of -MaxDeficit.
MaxDeficit == 2

\* Activities handled concurrently in one behaviour.
NumHandlers == 3
\* Undo(Announce) transactions among them; at most NumHandlers.
NumTx == 2
\* Access token rows issued in one behaviour.
MaxTokens == 2

\* An activity without an id.
NullIri == "null"
FollowIris == {"F" \o ToString(n) : n \in 1..NumFollowIris}
AnnounceIris == {"A" \o ToString(n) : n \in 1..NumAnnounceIris}

\* Actors known to the federation: L1 has a local owner, R1 and R2 are remote.
Locals == {"L1"}
Remotes == {"R1", "R2"}
Actors == Locals \cup Remotes
\* An actor reference that does not resolve to an actor with an id.
NoActor == "noactor"

\* Posts stored before any activity arrives, all written by L1: P1 is public,
\* PD is direct and mentions R1, PP is private.
StoredPosts == {"P1", "PD", "PP"}
\* An object reference that is null or not a Note or Article.
NoPost == "nopost"

-----------------------------------------------------------------------------
(* Storage *)

\* accounts.id, a surrogate key distinct from accounts.iri.
AccountId(iri) ==
  CASE iri = "L1" -> "uuid-L1"
    [] iri = "R1" -> "uuid-R1"
    [] iri = "R2" -> "uuid-R2"
    [] OTHER -> "uuid-none"

NewAccount(iri) ==
  [id |-> AccountId(iri), followersCount |-> 0, protected |-> FALSE,
   owner |-> FALSE]

\* The Actor Resolver on a resolvable actor: upsert of the Account row keyed
\* by IRI; the row of a known IRI keeps its id, counters and owner.
PersistAccount(accts, iri) ==
  [a \in DOMAIN accts \cup {iri} |->
     IF a \in DOMAIN accts THEN accts[a] ELSE NewAccount(a)]

\* Unique keys of the follows table: the activity IRI, and the edge.
FollowConflict(fs, row) ==
  \E r \in fs :
    \/ r.iri = row.iri
    \/ r.followingId = row.followingId /\ r.followerId = row.followerId

\* An upsert that overwrites the rows in conflict with the new row.
InsertFollowOverwriting(fs, row) ==
  {r \in fs : ~FollowConflict({r}, row)} \cup {row}

\* db.insert(follows).values(row).onConflictDoNothing()
InsertFollow(fs, row) ==
  IF FollowConflict(fs, row) THEN fs ELSE fs \cup {row}

\* db.select({cnt: count()}).from(follows).where(eq(follows.followingId, id))
CountFollows(fs, id) == Cardinality({r \in fs : r.followingId = id})

\* db.update(accounts).set({followersCount: n}).where(eq(accounts.id, id))
SetFollowersCount(accts, id, n) ==
  [a \in DOMAIN accts |->
     IF accts[a].id = id THEN [accts[a] EXCEPT !.followersCount = n]
     ELSE accts[a]]

IncrementFollowers(accts, fs, id) ==
  [a \in DOMAIN accts |->
     IF accts[a].id = id
     THEN [accts[a] EXCEPT !.followersCount = accts[a].followersCount + 1]
     ELSE accts[a]]

\* The count query followed by the update of accounts.followersCount.
RecountFollowers(accts, fs, id) ==
  SetFollowersCount(accts, id, CountFollows(fs, id))

ApprovedNever(following) == FALSE

\* approved: following.protected ? null : new Date(); TRUE is a non-null date.
ApprovedAt(following) == ~following.protected

AcceptAlways(following) == TRUE

\* if (!following.protected): the Accept reply and the recount.
SendsAccept(following) == ~following.protected

UndoFollowMatchIri(r, f, id) == r.iri = f

\* and(eq(follows.iri, f), eq(follows.followerId, id))
UndoFollowMatch(r, f, id) == r.iri = f /\ r.followerId = id

RowsDeletedAlways(deleted) == TRUE

\* deleted.length > 0
RowsDeleted(deleted) == Cardinality(deleted) > 0

\* posts.id, a surrogate key distinct from posts.iri.
PostId(iri) == "post-" \o iri

NewPost(iri, accountId, sharingId, visibility, mentions) ==
  [id |-> PostId(iri), accountId |-> accountId, sharingId |-> sharingId,
   visibility |-> visibility, mentions |-> mentions, sharesCount |-> 0]

NoSharing == "null"

\* The share rows: posts written by the account sharerId whose sharing
\* reference is the post originalId.
ShareRows(ps, sharerId, originalId) ==
  {q \in DOMAIN ps :
     ps[q].accountId = sharerId /\ ps[q].sharingId = originalId}

\* persistSharingPost on a resolved sharer and original: upsert, keyed by the
\* Announce's IRI, of a Post row with account = sharer and sharing =
\* original; no counter is written.
PersistSharingPost(ps, iri, sharerId, originalId) ==
  [q \in DOMAIN ps \cup {iri} |->
     IF q = iri
     THEN IF q \in DOMAIN ps
          THEN [ps[q] EXCEPT !.accountId = sharerId, !.sharingId = originalId]
          ELSE NewPost(iri, sharerId, originalId, "public", {})
     ELSE ps[q]]

\* sql`coalesce(sharesCount - n, 0)`: the column is never NULL here, so the
\* difference is returned as it is.
DecrementShares(sharesCount, n) == sharesCount - n

\* Primary key of the likes table: the (post, account) pair.
LikeConflict(ls, row) ==
  \E l \in ls : l.postId = row.postId /\ l.accountId = row.accountId

\* ON DELETE CASCADE from a post to the posts that share it: the rows gone
\* once the rows in gone are deleted.
RECURSIVE CascadeShares(_, _)
CascadeShares(ps, gone) ==
  LET goneIds == {ps[q].id : q \in gone}
      more == {q \in DOMAIN ps \ gone : ps[q].sharingId \in goneIds}
  IN  IF more = {} THEN gone ELSE CascadeShares(ps, gone \cup more)

\* The posts table without the rows in gone.
RemovePosts(ps, gone) == [q \in DOMAIN ps \ gone |-> ps[q]]

\* ON DELETE CASCADE from posts and accounts to likes.
RemoveLikes(ls, postIds, accountIds) ==
  {l \in ls : l.postId \notin postIds /\ l.accountId \notin accountIds}

\* ON DELETE CASCADE from accounts to follows, on either side of the edge.
RemoveFollows(fs, accountIds) ==
  {r \in fs : r.followerId \notin accountIds
               /\ r.followingId \notin accountIds}

-----------------------------------------------------------------------------
(* What a handler reports in last *)

\* again: the handler that ran before this one was given the same activity and
\* ran to its end; done: this one ran to its end without an error.
Report(op, iri, actor, obj) ==
  [op |-> op, iri |-> iri, actor |-> actor, obj |-> obj,
   again |-> (last.op = op /\ last.iri = iri /\ last.actor = actor
              /\ last.obj = obj /\ last.done),
   done |-> FALSE, err |-> "none", sent |-> 0, wrote |-> FALSE,
   inner |-> actor, deleted |-> 0, before |-> 0, result |-> "none"]

\* A structural gate failed: the handler returns without touching storage.
Drop(op, iri, actor, obj) ==
  /\ last' = Report(op, iri, actor, obj)
  /\ UNCHANGED <<accounts, follows, posts, likes, inflight, oauthVars>>

\* The same for an Undo, whose nested activity names the actor inner.
DropUndo(op, iri, actor, inner, obj) ==
  /\ last' = [Report(op, iri, actor, obj) EXCEPT !.inner = inner]
  /\ UNCHANGED <<accounts, follows, posts, likes, inflight, oauthVars>>

-----------------------------------------------------------------------------
(* Inbox listeners *)

InvalidActorNever(a) == FALSE

\* !isActor(actor) || actor.id == null
InvalidActor(a) == a = NoActor

UndoActorMismatchNever(a, inner) == FALSE

\* object instanceof Activity &&
\* object.actorId?.href !== undo.actorId?.href
UndoActorMismatch(a, inner) == inner # a

HasLocalOwnerIfKnown(accts, o) == o \in DOMAIN accts

\* db.query.accounts.findFirst({where: eq(accounts.iri, object.id.href),
\* with: {owner: true}}) and the test following?.owner == null, negated.
HasLocalOwner(accts, o) == o \in DOMAIN accts /\ accts[o].owner

\* .on(Follow): f is follow.id, a the actor, o the object, ok whether the
\* Actor Resolver resolves the actor.
Follow(f, a, o, ok) ==
  IF f = NullIri \/ InvalidActor(a) \/ InvalidActor(o)
  THEN Drop("Follow", f, a, o)
  ELSE IF ~HasLocalOwner(accounts, o)
  THEN Drop("Follow", f, a, o)
  ELSE IF ~ok
  THEN Drop("Follow", f, a, o)
  ELSE
    LET following == accounts[o]
        accts1 == PersistAccount(accounts, a)
        follower == accts1[a]
        row == [iri |-> f, followingId |-> following.id,
                followerId |-> follower.id,
                approved |-> ApprovedAt(following)]
        fs1 == InsertFollow(follows, row)
    IN  /\ follows' = fs1
        /\ IF SendsAccept(following)
           THEN /\ accounts' = RecountFollowers(accts1, fs1, following.id)
                /\ last' = [Report("Follow", f, a, o) EXCEPT
                              !.done = TRUE, !.sent = 1, !.wrote = TRUE]
           ELSE /\ accounts' = accts1
                /\ last' = [Report("Follow", f, a, o) EXCEPT !.done = TRUE]
        /\ UNCHANGED <<posts, likes, inflight, oauthVars>>

AcceptMatchIri(r, f, id) == r.iri = f

\* and(eq(follows.iri, f), eq(follows.followingId, id)) in on(Accept)
AcceptMatch(r, f, id) == r.iri = f /\ r.followingId = id

\* .on(Accept) with a nested Follow: f is the nested Follow's id.
Accept(f, a, ok) ==
  IF f = NullIri \/ InvalidActor(a) \/ ~ok
  THEN Drop("Accept", f, a, NoActor)
  ELSE
    LET accts1 == PersistAccount(accounts, a)
        account == accts1[a]
    IN  /\ accounts' = accts1
        /\ follows' = {IF AcceptMatch(r, f, account.id)
                       THEN [r EXCEPT !.approved = TRUE] ELSE r : r \in follows}
        /\ last' = [Report("Accept", f, a, NoActor) EXCEPT !.done = TRUE]
        /\ UNCHANGED <<posts, likes, inflight, oauthVars>>

RejectMatchIri(r, f, id) == r.iri = f

\* and(eq(follows.iri, f), eq(follows.followingId, id)) in on(Reject)
RejectMatch(r, f, id) == r.iri = f /\ r.followingId = id

\* .on(Reject) with a nested Follow.
Reject(f, a, ok) ==
  IF f = NullIri \/ InvalidActor(a) \/ ~ok
  THEN Drop("Reject", f, a, NoActor)
  ELSE
    LET accts1 == PersistAccount(accounts, a)
        account == accts1[a]
        deleted == {r \in follows : RejectMatch(r, f, account.id)}
    IN  /\ accounts' = accts1
        /\ follows' = follows \ deleted
        /\ last' = [Report("Reject", f, a, NoActor) EXCEPT
                      !.done = TRUE, !.deleted = Cardinality(deleted)]
        /\ UNCHANGED <<posts, likes, inflight, oauthVars>>

\* .on(Undo) with a nested Follow: a is the Undo's actor, inner the nested
\* Follow's actor.
UndoFollow(f, a, inner, ok) ==
  IF UndoActorMismatch(a, inner)
  THEN DropUndo("UndoFollow", f, a, inner, NoActor)
  ELSE IF f = NullIri \/ InvalidActor(a) \/ ~ok
  THEN DropUndo("UndoFollow", f, a, inner, NoActor)
  ELSE
    LET accts1 == PersistAccount(accounts, a)
        account == accts1[a]
        deleted == {r \in follows : UndoFollowMatch(r, f, account.id)}
        fs1 == follows \ deleted
    IN  /\ follows' = fs1
        /\ IF RowsDeleted(deleted)
           THEN LET target == (CHOOSE r \in deleted : TRUE).followingId
                IN  /\ accounts' = RecountFollowers(accts1, fs1, target)
                    /\ last' = [Report("UndoFollow", f, a, NoActor) EXCEPT
                                  !.done = TRUE, !.wrote = TRUE,
                                  !.deleted = Cardinality(deleted)]
           ELSE /\ accounts' = accts1
                /\ last' = [Report("UndoFollow", f, a, NoActor) EXCEPT
                              !.done = TRUE]
        /\ UNCHANGED <<posts, likes, inflight, oauthVars>>

\* ctx.parseUri on the object of a Like: the local Note or Article route with
\* the post's id, another local route, or no local route at all (null).
ActorRoute == "actor-route"
RemoteUri == "remote-uri"
ParseUri(ref) ==
  IF ref \in StoredPosts THEN [type |-> "object", id |-> PostId(ref)]
  ELSE IF ref = ActorRoute THEN [type |-> "actor", id |-> "null"]
  ELSE [type |-> "null", id |-> "null"]

\* db.insert(likes).values(row), with no conflict clause: a row whose
\* (post, account) pair is stored already violates the primary key.
InsertLike(ls, row) ==
  IF LikeConflict(ls, row)
  THEN [likes |-> ls, err |-> "unique_violation"]
  ELSE [likes |-> ls \cup {row}, err |-> "none"]

\* .on(Like): ref is like.objectId, a the actor.
Like(ref, a, ok) ==
  IF ref = NoPost
  THEN Drop("Like", NullIri, a, ref)
  ELSE IF ParseUri(ref).type = "null"
  THEN Drop("Like", NullIri, a, ref)
  ELSE IF ParseUri(ref).type # "object"
  THEN Drop("Like", NullIri, a, ref)
  ELSE IF a = NoActor \/ ~ok
  THEN Drop("Like", NullIri, a, ref)
  ELSE
    LET accts1 == PersistAccount(accounts, a)
        account == accts1[a]
        ins == InsertLike(likes, [postId |-> ParseUri(ref).id,
                                  accountId |-> account.id])
    IN  /\ accounts' = accts1
        /\ likes' = ins.likes
        /\ last' = [Report("Like", NullIri, a, ref) EXCEPT
                      !.done = (ins.err = "none"), !.err = ins.err]
        /\ UNCHANGED <<follows, posts, inflight, oauthVars>>

\* .on(Undo) with a nested Like: ref is the nested like.objectId, inner the
\* nested Like's actor.
UndoLike(ref, a, inner, ok) ==
  IF UndoActorMismatch(a, inner)
  THEN DropUndo("UndoLike", NullIri, a, inner, ref)
  ELSE IF ref = NoPost
  THEN DropUndo("UndoLike", NullIri, a, inner, ref)
  ELSE IF ParseUri(ref).type # "object"
  THEN DropUndo("UndoLike", NullIri, a, inner, ref)
  ELSE IF inner = NoActor \/ ~ok
  THEN DropUndo("UndoLike", NullIri, a, inner, ref)
  ELSE
    LET accts1 == PersistAccount(accounts, inner)
        account == accts1[inner]
        deleted == {l \in likes : l.postId = ParseUri(ref).id
                                  /\ l.accountId = account.id}
    IN  /\ accounts' = accts1
        /\ likes' = likes \ deleted
        /\ last' = [Report("UndoLike", NullIri, a, ref) EXCEPT
                      !.done = TRUE, !.deleted = Cardinality(deleted)]
        /\ UNCHANGED <<follows, posts, inflight, oauthVars>>

\* .on(Announce): iri is announce.id, a the actor, o the announced object.
Announce(iri, a, o, ok) ==
  IF o = NoPost
  THEN Drop("Announce", iri, a, o)
  ELSE IF iri = NullIri \/ a = NoActor \/ ~ok \/ o \notin DOMAIN posts
  THEN Drop("Announce", iri, a, o)
  ELSE
    LET accts1 == PersistAccount(accounts, a)
    IN  /\ accounts' = accts1
        /\ posts' = PersistSharingPost(posts, iri, accts1[a].id, posts[o].id)
        /\ last' = [Report("Announce", iri, a, o) EXCEPT
                      !.done = TRUE, !.before = posts[o].sharesCount]
        /\ UNCHANGED <<follows, likes, inflight, oauthVars>>

\* .on(Undo) with a nested Announce: inner is the nested Announce's actor
\* (the sharer), o its object (the original post).
UndoAnnounce(a, inner, o) ==
  IF UndoActorMismatch(a, inner)
  THEN DropUndo("UndoAnnounce", NullIri, a, inner, o)
  ELSE IF inner = NoActor \/ o = NoPost
  THEN DropUndo("UndoAnnounce", NullIri, a, inner, o)
  ELSE
    LET sharerIds == {accounts[x].id : x \in DOMAIN accounts \cap {inner}}
        originalIds == {posts[q].id : q \in DOMAIN posts \cap {o}}
        deleted == {q \in DOMAIN posts :
                      /\ posts[q].accountId \in sharerIds
                      /\ posts[q].sharingId \in originalIds}
    IN  /\ posts' = [q \in DOMAIN posts \ deleted |->
                       IF q = o
                       THEN [posts[q] EXCEPT !.sharesCount =
                               DecrementShares(posts[q].sharesCount,
                                               Cardinality(deleted))]
                       ELSE posts[q]]
        /\ last' = [Report("UndoAnnounce", NullIri, a, o) EXCEPT
                      !.done = TRUE, !.deleted = Cardinality(deleted),
                      !.before = IF o \in DOMAIN posts
                                 THEN posts[o].sharesCount ELSE 0]
        /\ UNCHANGED <<accounts, follows, likes, inflight, oauthVars>>

DeleteIsSelfNever(actorId, objectId) == FALSE

\* objectId.href === actorId.href
DeleteIsSelf(actorId, objectId) == objectId = actorId

\* db.delete(accounts).where(eq(accounts.iri, iri)), with the cascades to the
\* account's posts, to the posts sharing them, and to the follows and likes
\* the account or these posts are part of.
DeleteAccount(iri) ==
  LET rows == DOMAIN accounts \cap {iri}
      ids == {accounts[x].id : x \in rows}
      authored == {q \in DOMAIN posts : posts[q].accountId \in ids}
      gone == CascadeShares(posts, authored)
  IN  /\ accounts' = [x \in DOMAIN accounts \ rows |-> accounts[x]]
      /\ posts' = RemovePosts(posts, gone)
      /\ follows' = RemoveFollows(follows, ids)
      /\ likes' = RemoveLikes(likes, {posts[q].id : q \in gone}, ids)
      /\ last' = [Report("Delete", NullIri, iri, iri) EXCEPT
                    !.done = TRUE, !.deleted = Cardinality(gone)]
      /\ UNCHANGED <<inflight, oauthVars>>

\* db.delete(posts).where(eq(posts.iri, iri)), with the cascades to the posts
\* sharing the post and to the likes of the posts removed.
DeletePost(actorId, iri) ==
  LET gone == CascadeShares(posts, DOMAIN posts \cap {iri})
  IN  /\ posts' = RemovePosts(posts, gone)
      /\ likes' = RemoveLikes(likes, {posts[q].id : q \in gone}, {})
      /\ last' = [Report("Delete", NullIri, actorId, iri) EXCEPT
                    !.done = TRUE, !.deleted = Cardinality(gone)]
      /\ UNCHANGED <<accounts, follows, inflight, oauthVars>>

\* .on(Delete): actorId is del.actorId, objectId del.objectId.
Delete(actorId, objectId) ==
  IF actorId = NoActor \/ objectId = NullIri
  THEN Drop("Delete", NullIri, actorId, objectId)
  ELSE IF DeleteIsSelf(actorId, objectId)
  THEN DeleteAccount(actorId)
  ELSE DeletePost(actorId, objectId)

\* A nested object of a type the listener has no branch for.
UnsupportedObject == "unsupported"

\* The else branches of Accept, Reject, Create, Announce, Update and Undo:
\* the object is of no supported type, which is logged.
DropUnsupported(op, a) == Drop(op, NullIri, a, UnsupportedObject)

\* A Note of a remote author that is not stored before any activity arrives.
RemoteNote == "N1"

\* The Post Resolver on a Note or Article: upsert of the Post row keyed by
\* IRI; the row of a known IRI keeps its id, author, sharing and counters.
PersistPost(ps, iri, authorId) ==
  [q \in DOMAIN ps \cup {iri} |->
     IF q \in DOMAIN ps THEN ps[q]
     ELSE NewPost(iri, authorId, NoSharing, "public", {})]

\* The author the Post Resolver resolves first: L1 for the stored posts, the
\* sender for the remote Note.
AuthorOf(o, a) == IF o \in StoredPosts THEN "L1" ELSE a

\* .on(Update): o is the object of the Update, an actor, a Note or Article,
\* or something else; a is the sender, which the listener does not read.
Update(a, o) ==
  IF o \in Actors
  THEN /\ accounts' = PersistAccount(accounts, o)
       /\ last' = [Report("Update", NullIri, a, o) EXCEPT !.done = TRUE]
       /\ UNCHANGED <<follows, posts, likes, inflight, oauthVars>>
  ELSE IF o \in StoredPosts \cup {RemoteNote}
  THEN LET accts1 == PersistAccount(accounts, AuthorOf(o, a))
       IN  /\ accounts' = accts1
           /\ posts' = PersistPost(posts, o, accts1[AuthorOf(o, a)].id)
           /\ last' = [Report("Update", NullIri, a, o) EXCEPT !.done = TRUE]
           /\ UNCHANGED <<follows, likes, inflight, oauthVars>>
  ELSE DropUnsupported("Update", a)

-----------------------------------------------------------------------------
(* Inbox listeners handled concurrently: one step per awaited statement *)

\* The invocations of the listeners, numbered in the order they begin.
Handlers == 1..NumHandlers

\* The locals of an invocation that has not begun.
IdleHandler ==
  [pc |-> "idle", op |-> "none", iri |-> NullIri, actor |-> NoActor,
   obj |-> NoPost, target |-> "null", cnt |-> 0, deleted |-> 0,
   gone |-> {}, inserted |-> FALSE, sent |-> 0, wrote |-> FALSE,
   err |-> "none"]

Began(h) == inflight[h].pc # "idle"

MayBegin(h) ==
  /\ ~Began(h)
  /\ \A g \in Handlers : g < h => Began(g)

\* deleted[0].followingId
FirstFollowingId(deleted) ==
  IF deleted = {} THEN "undefined"
  ELSE (CHOOSE r \in deleted : TRUE).followingId

\* .on(Follow) up to the count query: the gates, persistAccount, the insert
\* and, for an unprotected target, sendActivity.
BeginFollow(h, f, a, o) ==
  /\ MayBegin(h)
  /\ LET rec == [IdleHandler EXCEPT !.op = "Follow", !.iri = f, !.actor = a]
     IN  IF \/ f = NullIri \/ InvalidActor(a) \/ InvalidActor(o)
            \/ ~HasLocalOwner(accounts, o)
         THEN /\ inflight' = [inflight EXCEPT ![h] = [rec EXCEPT !.pc = "done"]]
              /\ UNCHANGED <<accounts, follows>>
         ELSE
           LET following == accounts[o]
               accts1 == PersistAccount(accounts, a)
               row == [iri |-> f, followingId |-> following.id,
                       followerId |-> accts1[a].id,
                       approved |-> ApprovedAt(following)]
               fs1 == InsertFollow(follows, row)
           IN  /\ accounts' = accts1
               /\ follows' = fs1
               /\ inflight' =
                    [inflight EXCEPT ![h] =
                       [rec EXCEPT
                          !.pc = IF SendsAccept(following)
                                 THEN "count" ELSE "done",
                          !.target = following.id,
                          !.inserted = (fs1 # follows),
                          !.sent = IF SendsAccept(following) THEN 1 ELSE 0]]
  /\ UNCHANGED <<posts, likes, last, oauthVars>>

\* .on(Follow): db.select({cnt: count()}).from(follows).where(...)
FollowCount(h) ==
  /\ inflight[h].op = "Follow" /\ inflight[h].pc = "count"
  /\ inflight' = [inflight EXCEPT
                    ![h].cnt = CountFollows(follows, inflight[h].target),
                    ![h].pc = "write"]
  /\ UNCHANGED <<accounts, follows, posts, likes, last, oauthVars>>

\* .on(Follow): db.update(accounts).set({followersCount: result[0].cnt})
FollowWrite(h) ==
  /\ inflight[h].op = "Follow" /\ inflight[h].pc = "write"
  /\ accounts' = SetFollowersCount(accounts, inflight[h].target,
                                   inflight[h].cnt)
  /\ inflight' = [inflight EXCEPT ![h].wrote = TRUE, ![h].pc = "done"]
  /\ UNCHANGED <<follows, posts, likes, last, oauthVars>>

\* .on(Undo) with a nested Follow of the Undo's actor, up to the count query:
\* the gates, persistAccount and the delete with its returning clause.
BeginUndoFollow(h, f, a) ==
  /\ MayBegin(h)
  /\ LET rec == [IdleHandler EXCEPT
                   !.op = "UndoFollow", !.iri = f, !.actor = a]
     IN  IF f = NullIri \/ InvalidActor(a)
         THEN /\ inflight' = [inflight EXCEPT ![h] = [rec EXCEPT !.pc = "done"]]
              /\ UNCHANGED <<accounts, follows>>
         ELSE
           LET accts1 == PersistAccount(accounts, a)
               deleted == {r \in follows : UndoFollowMatch(r, f, accts1[a].id)}
           IN  /\ accounts' = accts1
               /\ follows' = follows \ deleted
               /\ inflight' =
                    [inflight EXCEPT ![h] =
                       [rec EXCEPT
                          !.pc = IF RowsDeleted(deleted)
                                 THEN "count" ELSE "done",
                          !.target = FirstFollowingId(deleted),
                          !.deleted = Cardinality(deleted)]]
  /\ UNCHANGED <<posts, likes, last, oauthVars>>

\* .on(Undo), Follow branch: the count query.
UndoFollowCount(h) ==
  /\ inflight[h].op = "UndoFollow" /\ inflight[h].pc = "count"
  /\ inflight' = [inflight EXCEPT
                    ![h].cnt = CountFollows(follows, inflight[h].target),
                    ![h].pc = "write"]
  /\ UNCHANGED <<accounts, follows, posts, likes, last, oauthVars>>

\* .on(Undo), Follow branch: the update of followersCount.
UndoFollowWrite(h) ==
  /\ inflight[h].op = "UndoFollow" /\ inflight[h].pc = "write"
  /\ accounts' = SetFollowersCount(accounts, inflight[h].target,
                                   inflight[h].cnt)
  /\ inflight' = [inflight EXCEPT ![h].wrote = TRUE, ![h].pc = "done"]
  /\ UNCHANGED <<follows, posts, likes, last, oauthVars>>

TransactionalNever == FALSE

\* await db.transaction(async (tx) => {...}): the statements run on tx, and
\* what they write is seen by others when the callback has returned.
Transactional == TRUE

\* The rows a running transaction has written and holds locked: the share
\* rows it deleted and, after its update, the original post.
LockedBy(h) ==
  IF inflight[h].pc = "tx-deleted" THEN inflight[h].gone
  ELSE IF inflight[h].pc = "tx-updated"
  THEN inflight[h].gone \cup {inflight[h].obj}
  ELSE {}

LockedByOther(h) == UNION {LockedBy(g) : g \in Handlers \ {h}}

\* tx.update(posts).set({sharesCount: ...}).where(eq(posts.iri, o))
DecrementAt(ps, o, n) ==
  [q \in DOMAIN ps |->
     IF q = o
     THEN [ps[q] EXCEPT !.sharesCount = DecrementShares(ps[q].sharesCount, n)]
     ELSE ps[q]]

\* .on(Undo) with a nested Announce of the Undo's actor, up to the end of
\* tx.delete(posts)...returning(): a is the sharer, o the original post. The
\* statement waits while another transaction holds a row it would delete.
UndoAnnounceDelete(h, a, o) ==
  /\ MayBegin(h)
  /\ LET rec == [IdleHandler EXCEPT
                   !.op = "UndoAnnounce", !.actor = a, !.obj = o]
     IN  IF a = NoActor \/ o = NoPost
         THEN /\ inflight' = [inflight EXCEPT ![h] = [rec EXCEPT !.pc = "done"]]
              /\ UNCHANGED posts
         ELSE
           LET sharerIds == {accounts[x].id : x \in DOMAIN accounts \cap {a}}
               originalIds == {posts[q].id : q \in DOMAIN posts \cap {o}}
               deleted == {q \in DOMAIN posts :
                             /\ posts[q].accountId \in sharerIds
                             /\ posts[q].sharingId \in originalIds}
           IN  /\ deleted \cap LockedByOther(h) = {}
               /\ inflight' =
                    [inflight EXCEPT ![h] =
                       [rec EXCEPT !.pc = "tx-deleted", !.gone = deleted,
                                   !.deleted = Cardinality(deleted)]]
               /\ posts' = IF Transactional THEN posts
                           ELSE RemovePosts(posts, deleted)
  /\ UNCHANGED <<accounts, follows, likes, last, oauthVars>>

\* The update of sharesCount inside the transaction; it waits while another
\* transaction holds the original post.
UndoAnnounceUpdate(h) ==
  /\ inflight[h].op = "UndoAnnounce" /\ inflight[h].pc = "tx-deleted"
  /\ inflight[h].obj \notin LockedByOther(h)
  /\ inflight' = [inflight EXCEPT ![h].pc = "tx-updated"]
  /\ posts' = IF Transactional THEN posts
              ELSE DecrementAt(posts, inflight[h].obj, inflight[h].deleted)
  /\ UNCHANGED <<accounts, follows, likes, last, oauthVars>>

\* The callback returns and the transaction commits.
UndoAnnounceCommit(h) ==
  /\ inflight[h].op = "UndoAnnounce" /\ inflight[h].pc = "tx-updated"
  /\ inflight' = [inflight EXCEPT ![h].pc = "done", ![h].wrote = TRUE]
  /\ posts' = IF Transactional
              THEN DecrementAt(RemovePosts(posts, inflight[h].gone),
                               inflight[h].obj, inflight[h].deleted)
              ELSE posts
  /\ UNCHANGED <<accounts, follows, likes, last, oauthVars>>

\* A statement of the transaction or its commit fails: the transaction is
\* rolled back and the listener throws.
UndoAnnounceFail(h) ==
  /\ inflight[h].op = "UndoAnnounce"
  /\ inflight[h].pc \in {"tx-deleted", "tx-updated"}
  /\ inflight' = [inflight EXCEPT
                    ![h].pc = "failed", ![h].err = "storage_failure"]
  /\ UNCHANGED <<accounts, follows, posts, likes, last, oauthVars>>

-----------------------------------------------------------------------------
(* Object dispatcher *)

\* accountOwners.handle of a local account.
Handle(iri) == IF iri = "L1" THEN "l1" ELSE "null"

\* like(accountOwners.handle, values.handle): the handle in the request is
\* an SQL LIKE pattern, of which "%" matches every handle.
HandleLike(handle, pattern) == pattern = handle \/ pattern = "%"

DirectFoundAlways(post, keyOwnerId) == TRUE

\* post.mentions.some((m) => m.account.iri === keyOwnerId.href)
DirectFound(post, keyOwnerId) == keyOwnerId \in post.mentions

PrivateFoundByAccountId(fs, keyOwnerId, ownerId) ==
  \E r \in fs : r.followerId = AccountId(keyOwnerId) /\ r.followingId = ownerId

\* db.query.follows.findFirst: followerId = keyOwner.id.href and
\* followingId = owner.id. The signer's IRI is compared with the follower
\* column, which holds accounts.id; the row's approved column is not read.
PrivateFound(fs, keyOwnerId, ownerId) ==
  \E r \in fs : r.followerId = keyOwnerId /\ r.followingId = ownerId

\* setObjectDispatcher(Note, "/@{handle}/{id}"): signer is what
\* ctx.getSignedKeyOwner() returns, NoActor when the request is not signed.
Dispatch(handle, id, signer) ==
  LET owners == {a \in DOMAIN accounts :
                   accounts[a].owner /\ HandleLike(Handle(a), handle)}
  IN  IF owners = {} THEN "notfound"
      ELSE
        LET owner == accounts[CHOOSE a \in owners : TRUE]
            found == {q \in DOMAIN posts :
                        posts[q].id = id /\ posts[q].accountId = owner.id}
        IN  IF found = {} THEN "notfound"
            ELSE
              LET post == posts[CHOOSE q \in found : TRUE]
              IN  IF post.visibility = "private"
                  THEN IF signer = NoActor THEN "notfound"
                       ELSE IF ~PrivateFound(follows, signer, owner.id)
                       THEN "notfound"
                       ELSE "object"
                  ELSE IF post.visibility = "direct"
                  THEN IF signer = NoActor THEN "notfound"
                       ELSE IF ~DirectFound(post, signer) THEN "notfound"
                       ELSE "object"
                  ELSE "object"

ObjectRequest(handle, id, signer) ==
  /\ last' = [Report("Object", handle, signer, id) EXCEPT
                !.done = TRUE, !.result = Dispatch(handle, id, signer)]
  /\ UNCHANGED <<accounts, follows, posts, likes, inflight, oauthVars>>

-----------------------------------------------------------------------------
(* OAuth endpoints *)

\* Values of scopeEnum; no application below registers "follow".
Scopes == {"read", "write", "follow"}

Oob == "urn:ietf:wg:oauth:2.0:oob"

\* The applications table, which the two endpoints only read.
Applications ==
  {[id |-> "app-1", clientId |-> "client-1", clientSecret |-> "secret-1",
    scopes |-> {"read", "write"}, redirectUris |-> {Oob}],
   [id |-> "app-2", clientId |-> "client-2", clientSecret |-> "secret-2",
    scopes |-> {"read"}, redirectUris |-> {"https://app-2/cb"}]}

\* A parameter that is absent from the request.
Absent == <<>>
Given(v) == <<v>>

\* scopesSchema: the parameter split into words, v the sequence of words;
\* the parse fails if a word is no scope, else it gives the scopes listed.
ScopesSchema(v) ==
  IF \E i \in 1..Len(v) : v[i] \notin Scopes
  THEN [success |-> FALSE, data |-> {}]
  ELSE [success |-> TRUE, data |-> {v[i] : i \in 1..Len(v)}]

ScopesAllowedAlways(application, scopes) == TRUE

\* scopes.some((s) => !application.scopes.includes(s)), negated
ScopesAllowed(application, scopes) ==
  \A s \in scopes : s \in application.scopes

\* encodeBase64Url(crypto.getRandomValues(new Uint8Array(16))): a code no
\* stored row has.
NewCode(tokens) == "T" \o ToString(Cardinality(tokens) + 1)

\* grant_type of a row inserted without one: the column's default.
DefaultGrantType == "authorization_code"

\* `${encodeBase64Url(signature)}^${now}^${token.code}`, without the time.
SignedToken(code) == "hmac^" \o code

NoCode == "none"

\* What an endpoint reports in response: the request's fields the claims
\* read (client is the id of the application found, presented the code
\* parameter) and the response's status, error, access_token, scope and code.
Respond(op, status, error) ==
  [op |-> op, status |-> status, error |-> error, access_token |-> "none",
   scope |-> {}, code |-> NoCode, client |-> "none", grant_type |-> "none",
   presented |-> NoCode, decision |-> "none"]

\* A response that leaves the access tokens as they are.
Refuse(r) ==
  /\ response' = r
  /\ UNCHANGED accessTokens
  /\ UNCHANGED inboxVars

\* POST /oauth/authorize: scopeWords is the scopes field split into words.
Authorize(accountId, applicationId, redirectUri, scopeWords, decision) ==
  LET parsed == ScopesSchema(scopeWords)
      found == {a \in Applications : a.id = applicationId}
      application == CHOOSE a \in found : TRUE
      code == NewCode(accessTokens)
      asked == [Respond("authorize", 302, "none") EXCEPT
                  !.decision = decision, !.client = applicationId]
  IN  IF ~parsed.success
      THEN Refuse([asked EXCEPT !.status = 400, !.error = "invalid_form"])
      ELSE IF found = {}
      THEN Refuse([asked EXCEPT !.status = 404, !.error = "not_found",
                                !.client = "none"])
      ELSE IF ~ScopesAllowed(application, parsed.data)
      THEN Refuse([asked EXCEPT !.status = 400, !.error = "invalid_scope"])
      ELSE IF redirectUri \notin application.redirectUris
      THEN Refuse([asked EXCEPT !.status = 400,
                                !.error = "invalid_redirect_uri"])
      ELSE IF decision = "deny"
      THEN Refuse([asked EXCEPT !.error = "access_denied"])
      ELSE /\ Cardinality(accessTokens) < MaxTokens
           /\ accessTokens' = accessTokens \cup
                {[code |-> code, accountOwnerId |-> accountId,
                  applicationId |-> application.id, scopes |-> parsed.data,
                  grant_type |-> DefaultGrantType]}
           /\ response' = [asked EXCEPT
                             !.status = IF redirectUri = Oob THEN 200 ELSE 302,
                             !.code = code]
           /\ UNCHANGED inboxVars

GrantTypes == {"authorization_code", "client_credentials"}

\* POST /oauth/token: scope is Absent or the scope parameter split into
\* words, code Absent or the code parameter.
Token(grantType, code, clientId, clientSecret, scope) ==
  LET parsed == IF scope = Absent THEN [success |-> TRUE, data |-> {}]
                ELSE ScopesSchema(scope[1])
      found == {a \in Applications : a.clientId = clientId}
      application == CHOOSE a \in found : TRUE
      scopes == IF scope = Absent THEN {"read"} ELSE parsed.data
      tokens == {t \in accessTokens : code # Absent /\ t.code = code[1]}
      token == CHOOSE t \in tokens : TRUE
      newCode == NewCode(accessTokens)
      asked == [Respond("token", 200, "none") EXCEPT
                  !.grant_type = grantType,
                  !.presented = IF code = Absent THEN NoCode ELSE code[1]]
      authed == [asked EXCEPT !.client = application.id]
  IN  IF grantType \notin GrantTypes \/ ~parsed.success
      THEN Refuse([asked EXCEPT !.status = 400, !.error = "Invalid request"])
      ELSE IF found = {} \/ application.clientSecret # clientSecret
      THEN Refuse([asked EXCEPT !.status = 401, !.error = "invalid_client"])
      ELSE IF ~ScopesAllowed(application, scopes)
      THEN Refuse([authed EXCEPT !.status = 400, !.error = "invalid_scope"])
      ELSE IF grantType = "authorization_code"
      THEN IF code = Absent
           THEN Refuse([authed EXCEPT !.status = 400,
                                      !.error = "invalid_request"])
           ELSE IF tokens = {} \/ token.grant_type # "authorization_code"
           THEN Refuse([authed EXCEPT !.status = 400,
                                      !.error = "invalid_grant"])
           ELSE Refuse([authed EXCEPT
                          !.access_token = SignedToken(token.code),
                          !.scope = token.scopes])
      ELSE /\ Cardinality(accessTokens) < MaxTokens
           /\ accessTokens' = accessTokens \cup
                {[code |-> newCode, accountOwnerId |-> "null",
                  applicationId |-> application.id, scopes |-> scopes,
                  grant_type |-> "client_credentials"]}
           /\ response' = [authed EXCEPT !.access_token = newCode,
                                         !.scope = scopes]
           /\ UNCHANGED inboxVars

-----------------------------------------------------------------------------
(* Initial state and specifications *)

Init ==
  /\ \E p \in BOOLEAN :
       accounts = [a \in {"L1", "R1"} |->
                     IF a = "L1"
                     THEN [NewAccount(a) EXCEPT !.owner = TRUE, !.protected = p]
                     ELSE NewAccount(a)]
  /\ follows = {}
  /\ posts = [p \in StoredPosts |->
                NewPost(p, AccountId("L1"), NoSharing,
                        CASE p = "P1" -> "public"
                          [] p = "PD" -> "direct"
                          [] OTHER -> "private",
                        IF p = "PD" THEN {"R1"} ELSE {})]
  /\ likes = {}
  /\ inflight = [h \in Handlers |-> IdleHandler]
  /\ accessTokens = {}
  /\ response = Respond("none", 0, "none")
  /\ last = [op |-> "none", iri |-> NullIri, actor |-> NoActor, obj |-> NoActor,
             again |-> FALSE, done |-> FALSE, err |-> "none", sent |-> 0,
             wrote |-> FALSE, inner |-> NoActor, deleted |-> 0, before |-> 0,
             result |-> "none"]

ActorRefs == Actors \cup {NoActor}
FollowRefs == FollowIris \cup {NullIri}

\* The objects of the Announce activities received, and of the Likes.
PostRefs == {"P1", NoPost}
LikeRefs == {"P1", "PD", NoPost, ActorRoute, RemoteUri}
Handles == {"l1", "%", "nobody"}
PostIds == {PostId(p) : p \in StoredPosts} \cup {"post-unknown"}

NextFollow ==
  \/ \E f \in FollowRefs, a \in ActorRefs, ok \in BOOLEAN :
       \E o \in ActorRefs \ {a} : Follow(f, a, o, ok)
  \/ \E f \in FollowRefs, a \in ActorRefs, ok \in BOOLEAN : Accept(f, a, ok)
  \/ \E f \in FollowRefs, a \in ActorRefs, ok \in BOOLEAN : Reject(f, a, ok)
  \/ \E f \in FollowRefs, a \in ActorRefs, inner \in ActorRefs, ok \in BOOLEAN :
       UndoFollow(f, a, inner, ok)

SpecFollow == Init /\ [][NextFollow]_vars

NextShare ==
  \/ \E iri \in AnnounceIris \cup {NullIri}, a \in ActorRefs, o \in PostRefs,
        ok \in BOOLEAN : Announce(iri, a, o, ok)
  \/ \E a \in ActorRefs, inner \in ActorRefs, o \in PostRefs :
       /\ UndoAnnounce(a, inner, o)
       /\ \A q \in DOMAIN posts' : posts'[q].sharesCount >= -MaxDeficit

SpecShare == Init /\ [][NextShare]_vars

NextLike ==
  \/ \E ref \in LikeRefs, a \in ActorRefs, ok \in BOOLEAN : Like(ref, a, ok)
  \/ \E ref \in LikeRefs, a \in ActorRefs, inner \in ActorRefs, ok \in BOOLEAN :
       UndoLike(ref, a, inner, ok)

SpecLike == Init /\ [][NextLike]_vars

NextExpose ==
  \/ \E f \in FollowRefs, a \in ActorRefs, ok \in BOOLEAN :
       \E o \in ActorRefs \ {a} : Follow(f, a, o, ok)
  \/ \E f \in FollowRefs, a \in ActorRefs, ok \in BOOLEAN : Accept(f, a, ok)
  \/ \E h \in Handles, id \in PostIds, signer \in ActorRefs :
       ObjectRequest(h, id, signer)

SpecExpose == Init /\ [][NextExpose]_vars

\* The objects of the Delete activities received: actors, stored posts,
\* shares, and an activity without an object.
DeleteRefs == Actors \cup {"P1", "PD"} \cup AnnounceIris \cup {NullIri}

NextDelete ==
  \/ \E f \in FollowIris, a \in Remotes : Follow(f, a, "L1", TRUE)
  \/ \E iri \in AnnounceIris, a \in Remotes : Announce(iri, a, "P1", TRUE)
  \/ \E a \in ActorRefs, o \in DeleteRefs : Delete(a, o)

SpecDelete == Init /\ [][NextDelete]_vars

\* Every listener, on one well-formed and one malformed value of each input.
GateActors == {"R1", NoActor}
GateTargets == {"L1", NoActor}
GateIris(iris) == {CHOOSE i \in iris : TRUE, NullIri}
GateLikeRefs == {"P1", NoPost, ActorRoute, RemoteUri}
UnsupportedOps == {"Accept", "Reject", "Create", "Announce", "Update", "Undo"}

NextGates ==
  \/ \E f \in GateIris(FollowIris), a \in GateActors, o \in GateTargets,
        ok \in BOOLEAN : Follow(f, a, o, ok)
  \/ \E f \in GateIris(FollowIris), a \in GateTargets, ok \in BOOLEAN :
       Accept(f, a, ok)
  \/ \E f \in GateIris(FollowIris), a \in GateTargets, ok \in BOOLEAN :
       Reject(f, a, ok)
  \/ \E f \in GateIris(FollowIris), a \in GateActors, ok \in BOOLEAN :
       UndoFollow(f, a, a, ok)
  \/ \E ref \in GateLikeRefs, a \in GateActors, ok \in BOOLEAN :
       Like(ref, a, ok)
  \/ \E ref \in GateLikeRefs, a \in GateActors, ok \in BOOLEAN :
       UndoLike(ref, a, a, ok)
  \/ \E iri \in GateIris(AnnounceIris), a \in GateActors, o \in PostRefs,
        ok \in BOOLEAN : Announce(iri, a, o, ok)
  \/ \E a \in GateActors, o \in PostRefs :
       /\ UndoAnnounce(a, a, o)
       /\ \A q \in DOMAIN posts' : posts'[q].sharesCount >= -MaxDeficit
  \/ \E a \in GateActors, o \in {"P1", NullIri} : Delete(a, o)
  \/ \E op \in UnsupportedOps, a \in GateActors : DropUnsupported(op, a)

SpecGates == Init /\ [][NextGates]_vars

NextRace ==
  \/ \E h \in Handlers, f \in FollowIris, a \in Remotes :
       BeginFollow(h, f, a, "L1")
  \/ \E h \in Handlers : FollowCount(h)
  \/ \E h \in Handlers : FollowWrite(h)
  \/ \E h \in Handlers, f \in FollowIris, a \in Remotes :
       BeginUndoFollow(h, f, a)
  \/ \E h \in Handlers : UndoFollowCount(h)
  \/ \E h \in Handlers : UndoFollowWrite(h)

SpecRace == Init /\ [][NextRace]_vars

NextTx ==
  \/ \E iri \in AnnounceIris :
       /\ \A h \in Handlers : iri \notin LockedBy(h)
       /\ Announce(iri, "R1", "P1", TRUE)
  \/ \E h \in 1..NumTx, a \in Remotes \cup {NoActor} :
       UndoAnnounceDelete(h, a, "P1")
  \/ \E h \in Handlers : UndoAnnounceUpdate(h)
  \/ \E h \in Handlers : UndoAnnounceCommit(h)
  \/ \E h \in Handlers : UndoAnnounceFail(h)

SpecTx == Init /\ [][NextTx]_vars

\* The activities remote actors send about the local account L1 and its
\* post P1, and the Undo of each, naming the same or another actor.
NextUndo ==
  \/ \E f \in FollowIris, a \in Remotes : Follow(f, a, "L1", TRUE)
  \/ \E a \in Remotes : Like("P1", a, TRUE)
  \/ \E iri \in GateIris(AnnounceIris) \ {NullIri}, a \in Remotes :
       Announce(iri, a, "P1", TRUE)
  \/ \E f \in FollowIris, a \in Remotes, inner \in Remotes :
       UndoFollow(f, a, inner, TRUE)
  \/ \E a \in Remotes, inner \in Remotes : UndoLike("P1", a, inner, TRUE)
  \/ \E a \in Remotes, inner \in Remotes :
       /\ UndoAnnounce(a, inner, "P1")
       /\ \A q \in DOMAIN posts' : posts'[q].sharesCount >= -MaxDeficit

SpecUndo == Init /\ [][NextUndo]_vars

\* The life of the Follow rows toward L1: the activities that insert and
\* approve them, those that remove them, and the others the inbox handles.
UpdateRefs == {"R1", "P1", RemoteNote, UnsupportedObject}

NextLife ==
  \/ \E f \in FollowIris, a \in Remotes : Follow(f, a, "L1", TRUE)
  \/ \E f \in FollowIris : Accept(f, "L1", TRUE)
  \/ \E f \in FollowIris : Reject(f, "L1", TRUE)
  \/ \E f \in FollowIris, a \in Remotes : UndoFollow(f, a, a, TRUE)
  \/ \E a \in Remotes : Like("P1", a, TRUE)
  \/ \E iri \in GateIris(AnnounceIris) \ {NullIri} :
       Announce(iri, "R1", "P1", TRUE)
  \/ \E o \in UpdateRefs : Update("R1", o)
  \/ \E a \in Remotes : Delete(a, a)

SpecLife == Init /\ [][NextLife]_vars

\* The requests to the OAuth endpoints: the scope parameters are one or
\* two words, the codes those issued, one never issued, and none; a client
\* presents its own secret or that of another application.
ScopeParams == {<<"read">>, <<"read", "write">>, <<"bogus">>}
AccountOwnerIds == {"owner-1"}
ApplicationIds == {a.id : a \in Applications} \cup {"app-none"}
RedirectUris == {Oob, "https://app-2/cb"}
Clients ==
  {<<a.clientId, a.clientSecret>> : a \in Applications}
    \cup {<<"client-1", "secret-2">>, <<"client-none", "secret-1">>}
IssuedCodes == {"T" \o ToString(n) : n \in 1..MaxTokens}
CodeParams == {Given(c) : c \in IssuedCodes \cup {"T-unknown"}} \cup {Absent}

NextOAuth ==
  \/ \E acc \in AccountOwnerIds, app \in ApplicationIds, uri \in RedirectUris,
        sc \in ScopeParams, decision \in {"allow", "deny"} :
       Authorize(acc, app, uri, sc, decision)
  \/ \E g \in GrantTypes \cup {"password"}, code \in CodeParams,
        client \in Clients,
        sc \in {Given(p) : p \in ScopeParams} \cup {Absent} :
       Token(g, code, client[1], client[2], sc)

SpecOAuth == Init /\ [][NextOAuth]_vars

Next ==
  \/ NextFollow \/ NextShare \/ NextLike \/ NextExpose \/ NextDelete
  \/ NextGates \/ NextRace \/ NextTx \/ NextUndo \/ NextLife
  \/ NextOAuth

Spec == Init /\ [][Next]_vars

-----------------------------------------------------------------------------
(* Claims about the follow state machine *)

\* Follow rows with non-null approvedAt that target the account with this id.
ApprovedFollowers(id) == {r \in follows : r.followingId = id /\ r.approved}

\* The rows of the Follow activity f from follower a to account o.
RowsOf(fs, f, a, o) ==
  {r \in fs : r.iri = f /\ r.followerId = AccountId(a)
              /\ r.followingId = AccountId(o)}

\* The rows of the edge from follower a to account o, under any IRI.
EdgeRows(fs, a, o) ==
  {r \in fs : r.followerId = AccountId(a) /\ r.followingId = AccountId(o)}

\* A row of another follow holds the IRI f or the edge (a, o).
OtherRowConflicts(fs, f, a, o) ==
  \E r \in fs \ RowsOf(fs, f, a, o) :
    \/ r.iri = f
    \/ r.followerId = AccountId(a) /\ r.followingId = AccountId(o)

\* C1: after any sequence of Follow, Accept, Reject and Undo(Follow), every
\* account's followersCount equals the number of Follow rows targeting it
\* whose approvedAt is non-null; pending rows are not counted.
C1_FollowersCountIsApprovedCount ==
  \A a \in DOMAIN accounts :
    accounts[a].followersCount = Cardinality(ApprovedFollowers(accounts[a].id))

\* The same Follow was handled twice in a row, both times to the end.
FollowHandledTwice == last.op = "Follow" /\ last.done /\ last.again

\* C3 as stated: handling the same Follow (same IRI, follower and target)
\* twice yields exactly one Follow row for it, the second handling raises no
\* error, and followersCount after the second handling equals its value after
\* the first.
C3_SameFollowTwiceExactlyOneRow ==
  /\ [](FollowHandledTwice =>
          /\ Cardinality(RowsOf(follows, last.iri, last.actor, last.obj)) = 1
          /\ last.err = "none")
  /\ [][FollowHandledTwice' =>
          accounts'[last'.obj].followersCount
            = accounts[last'.obj].followersCount]_vars

\* C3 amended: handling the same Follow twice leaves at most one Follow row
\* for it, exactly one unless a row of another follow holds its IRI or its
\* edge (the insert was then skipped); the second handling raises no error
\* and leaves the follows table and every followersCount as the first
\* handling left them.
C3_SameFollowTwiceIdempotent ==
  /\ [](FollowHandledTwice =>
          /\ Cardinality(RowsOf(follows, last.iri, last.actor, last.obj)) <= 1
          /\ (~OtherRowConflicts(follows, last.iri, last.actor, last.obj)
                => Cardinality(RowsOf(follows, last.iri, last.actor, last.obj)) = 1)
          /\ last.err = "none")
  /\ [][FollowHandledTwice' =>
          /\ follows' = follows
          /\ accounts' = accounts]_vars

C3_Witness ==
  /\ FollowHandledTwice
  /\ Cardinality(RowsOf(follows, last.iri, last.actor, last.obj)) = 1
  /\ accounts[last.obj].followersCount = 1

\* The Undo(Follow) handled in this step ran to its end and found no Follow
\* row with its IRI and follower.
UndoFollowOfNothing ==
  /\ last'.op = "UndoFollow" /\ last'.done
  /\ ~\E r \in follows :
        r.iri = last'.iri /\ r.followerId = AccountId(last'.actor)

\* C5: an Undo(Follow) handled when no Follow row with that IRI and follower
\* exists deletes zero rows, raises no error, writes no followersCount, and
\* leaves every Follow row and every followersCount unchanged and
\* non-negative.
C5_UndoFollowOfNothingIsNoOp ==
  [][UndoFollowOfNothing =>
       /\ last'.deleted = 0
       /\ last'.err = "none"
       /\ ~last'.wrote
       /\ follows' = follows
       /\ \A a \in DOMAIN accounts :
            /\ a \in DOMAIN accounts'
            /\ accounts'[a].followersCount = accounts[a].followersCount
            /\ accounts'[a].followersCount >= 0]_vars

\* An Undo(Follow) ran to its end and deleted nothing while Follow rows exist.
C5_Witness ==
  /\ last.op = "UndoFollow" /\ last.done /\ last.deleted = 0
  /\ follows # {}
  /\ ~\E r \in follows :
        r.iri = last.iri /\ r.followerId = AccountId(last.actor)

\* The Follow handled in this step ran to its end, and its target had
\* protected = p.
FollowStep(p) ==
  /\ last'.op = "Follow" /\ last'.done
  /\ accounts[last'.obj].protected = p

\* C8 as stated: a Follow with a new IRI from follower R to a local account L
\* with protected = false leaves a Follow row (R, L) with non-null approvedAt,
\* L.followersCount equal to its previous value plus 1, and exactly one
\* Accept emitted.
C8_UnprotectedFollowIncrements ==
  [][FollowStep(FALSE) /\ (~\E r \in follows : r.iri = last'.iri) =>
       /\ \E r \in EdgeRows(follows', last'.actor, last'.obj) : r.approved
       /\ accounts'[last'.obj].followersCount
            = accounts[last'.obj].followersCount + 1
       /\ last'.sent = 1]_vars

\* C8 amended: a Follow from R to a local account L with protected = false,
\* when no Follow row holds its IRI or the edge (R, L), inserts the row
\* (IRI, R, L) with non-null approvedAt and emits exactly one Accept, and
\* L.followersCount becomes the number of Follow rows targeting L, which is
\* its previous value plus 1 when that value counted the rows targeting L.
C8_UnprotectedFollowInsertsAndRecounts ==
  [][FollowStep(FALSE)
       /\ ~OtherRowConflicts(follows, last'.iri, last'.actor, last'.obj)
       /\ RowsOf(follows, last'.iri, last'.actor, last'.obj) = {} =>
       /\ \E r \in RowsOf(follows', last'.iri, last'.actor, last'.obj) :
            r.approved
       /\ Cardinality(RowsOf(follows', last'.iri, last'.actor, last'.obj)) = 1
       /\ last'.sent = 1
       /\ accounts'[last'.obj].followersCount
            = CountFollows(follows', AccountId(last'.obj))
       /\ (accounts[last'.obj].followersCount
             = CountFollows(follows, AccountId(last'.obj))
           => accounts'[last'.obj].followersCount
                = accounts[last'.obj].followersCount + 1)]_vars

\* A Follow of an unprotected account ran to its end and its row is the
\* second one targeting that account.
C8_Witness ==
  /\ last.op = "Follow" /\ last.done /\ last.sent = 1
  /\ \E r \in RowsOf(follows, last.iri, last.actor, last.obj) : r.approved
  /\ accounts[last.obj].followersCount = 2

\* C9 as stated: a Follow that targets a local account L with
\* protected = true leaves the Follow row (the row with its IRI or its edge)
\* pending (approvedAt null), L.followersCount unchanged and no Accept
\* emitted.
C9_ProtectedFollowPending ==
  [][FollowStep(TRUE) =>
       /\ \E r \in follows' :
            /\ r.iri = last'.iri \/ r \in EdgeRows(follows', last'.actor, last'.obj)
            /\ ~r.approved
       /\ accounts'[last'.obj].followersCount
            = accounts[last'.obj].followersCount
       /\ last'.sent = 0]_vars

\* C9 amended: a Follow that targets a local account L with protected = true
\* leaves L.followersCount unchanged and emits no Accept; when no Follow row
\* holds its IRI or its edge it inserts the row with approvedAt null, and
\* otherwise it leaves the follows table as it was (a row already approved
\* stays approved).
C9_ProtectedFollowInsertsPendingOrSkips ==
  [][FollowStep(TRUE) =>
       /\ accounts'[last'.obj].followersCount
            = accounts[last'.obj].followersCount
       /\ last'.sent = 0
       /\ ~last'.wrote
       /\ IF \/ OtherRowConflicts(follows, last'.iri, last'.actor, last'.obj)
             \/ RowsOf(follows, last'.iri, last'.actor, last'.obj) # {}
          THEN follows' = follows
          ELSE /\ \E r \in RowsOf(follows', last'.iri, last'.actor, last'.obj) :
                    ~r.approved
               /\ Cardinality(follows') = Cardinality(follows) + 1]_vars

\* A Follow of a protected account ran to its end and left its row pending.
C9_Witness ==
  /\ last.op = "Follow" /\ last.done /\ last.sent = 0
  /\ accounts[last.obj].protected
  /\ \E r \in RowsOf(follows, last.iri, last.actor, last.obj) : ~r.approved

-----------------------------------------------------------------------------
(* Claims about the engagement ledger *)

\* The Post rows whose sharing reference points at the post p.
SharesOf(p) == {q \in DOMAIN posts : posts[q].sharingId = posts[p].id}

\* C2: after any sequence of Announce and Undo(Announce), every post's
\* sharesCount equals the number of Post rows whose sharing reference points
\* at it.
C2_SharesCountIsShareRowCount ==
  \A p \in DOMAIN posts : posts[p].sharesCount = Cardinality(SharesOf(p))

\* C4: handling the same Like (same post, same actor) twice leaves exactly
\* one Like row for that (post, account) pair, and the second handling
\* completes without raising a storage error.
C4_SameLikeTwiceNoError ==
  last.op = "Like" /\ last.again =>
    /\ Cardinality({l \in likes : l.postId = PostId(last.obj)
                                  /\ l.accountId = AccountId(last.actor)}) = 1
    /\ last.err = "none"

\* C6: Announce(actor = S, object = P1) followed by Undo(Announce) for the
\* same (S, P1) removes the share Post row the Announce created and leaves
\* P1.sharesCount equal to the value it had before the Announce.
C6_AnnounceThenUndoRestoresCount ==
  [][/\ last.op = "Announce" /\ last.done
     /\ last'.op = "UndoAnnounce" /\ last'.done
     /\ last'.actor = last.actor /\ last'.obj = last.obj
     =>
     /\ ShareRows(posts', AccountId(last.actor), PostId(last.obj)) = {}
     /\ posts'[last.obj].sharesCount = last.before]_vars

\* C7: Undo(Announce) decrements sharesCount by the number of share rows it
\* deleted, floored at zero: sharesCount of every post is at least 0 in every
\* reachable state.
C7_SharesCountNeverNegative ==
  \A p \in DOMAIN posts : posts[p].sharesCount >= 0

-----------------------------------------------------------------------------
(* Claims about the object dispatcher *)

\* The request handled last named a stored direct post by its owner's handle
\* and its id.
DirectPostRequested ==
  /\ last.op = "Object"
  /\ \E q \in DOMAIN posts :
       /\ posts[q].id = last.obj
       /\ posts[q].visibility = "direct"
       /\ \E a \in DOMAIN accounts :
            /\ accounts[a].owner /\ HandleLike(Handle(a), last.iri)
            /\ accounts[a].id = posts[q].accountId

\* C10: the object dispatcher discloses a direct post if and only if the
\* requester's verified signer is among the post's mentions, whatever Follow
\* rows are stored; a request without a verified signer gets not found.
C10_DirectDisclosedIffMentioned ==
  DirectPostRequested =>
    \A q \in DOMAIN posts :
      posts[q].id = last.obj =>
        /\ last.result = "object"
             <=> (last.actor # NoActor /\ last.actor \in posts[q].mentions)
        /\ last.result \in {"object", "notfound"}
        /\ last.actor = NoActor => last.result = "notfound"

\* R2, who is not mentioned, follows the post's owner with an approved row
\* and is refused the direct post.
C10_Witness ==
  /\ DirectPostRequested
  /\ last.actor = "R2" /\ last.result = "notfound"
  /\ \E r \in follows :
       r.followerId = AccountId("R2") /\ r.followingId = AccountId("L1")
       /\ r.approved

\* The request handled last named a stored private post by its owner's handle
\* and its id.
PrivatePostRequested ==
  /\ last.op = "Object"
  /\ \E q \in DOMAIN posts :
       /\ posts[q].id = last.obj
       /\ posts[q].visibility = "private"
       /\ \E a \in DOMAIN accounts :
            /\ accounts[a].owner /\ HandleLike(Handle(a), last.iri)
            /\ accounts[a].id = posts[q].accountId

\* The signer of the request handled last has a Follow row with non-null
\* approvedAt from its account to the owner of the post q.
SignerIsApprovedFollower(q) ==
  /\ last.actor # NoActor
  /\ \E r \in follows :
       /\ r.followerId = AccountId(last.actor)
       /\ r.followingId = posts[q].accountId
       /\ r.approved

-----------------------------------------------------------------------------
(* Claims about Delete *)

\* The Delete handled in this step passed its gates.
DeleteStep == last'.op = "Delete" /\ last'.done

\* The Delete handled in this step names its own actor as its object.
DeleteOfSelf == DeleteStep /\ last'.obj = last'.actor

\* The Delete handled in this step names something else than its actor.
DeleteOfObject == DeleteStep /\ last'.obj # last'.actor

\* The account row with this IRI is gone after the step, and so is every post
\* it had authored.
AccountAndPostsRemoved(iri) ==
  /\ iri \notin DOMAIN accounts'
  /\ \A x \in DOMAIN accounts \cap {iri} :
       \A q \in DOMAIN posts' : posts'[q].accountId # accounts[x].id

\* The posts removed by the step.
PostsRemoved == DOMAIN posts \ DOMAIN posts'

\* Every post left by the step was there before and is unchanged.
RemainingPostsUnchanged ==
  \A q \in DOMAIN posts' : q \in DOMAIN posts /\ posts'[q] = posts[q]

\* C12 as stated: a Delete whose object IRI equals its actor IRI removes the
\* Account row with that IRI together with all posts it authored; a Delete
\* whose object IRI differs from the actor IRI removes only the Post row with
\* that IRI and leaves every account and every other post unchanged.
C12_DeleteRemovesAccountOrOnlyPost ==
  [][/\ DeleteOfSelf => AccountAndPostsRemoved(last'.obj)
     /\ DeleteOfObject =>
          /\ PostsRemoved = DOMAIN posts \cap {last'.obj}
          /\ RemainingPostsUnchanged
          /\ accounts' = accounts]_vars

\* C12 amended: a Delete whose object IRI equals its actor IRI removes the
\* Account row with that IRI together with all posts it authored; a Delete
\* whose object IRI differs from the actor IRI removes the Post row with that
\* IRI and with it the Post rows that share a removed post, and no other
\* post; it leaves every account and every remaining post unchanged, and it
\* removes that row alone when no post shares it.
C12_DeleteRemovesAccountOrPostWithShares ==
  [][/\ DeleteOfSelf => AccountAndPostsRemoved(last'.obj)
     /\ DeleteOfObject =>
          /\ last'.obj \notin DOMAIN posts'
          /\ \A q \in PostsRemoved :
               \/ q = last'.obj
               \/ \E g \in PostsRemoved : posts[q].sharingId = posts[g].id
          /\ \A q \in DOMAIN posts', g \in PostsRemoved :
               posts'[q].sharingId # posts[g].id
          /\ (\A q \in DOMAIN posts :
                 last'.obj \in DOMAIN posts
                   => posts[q].sharingId # posts[last'.obj].id)
               => PostsRemoved = DOMAIN posts \cap {last'.obj}
          /\ RemainingPostsUnchanged
          /\ accounts' = accounts]_vars

\* A Delete of the post P1 removed it together with a share of it, and left
\* the other stored posts.
C12_Witness ==
  /\ last.op = "Delete" /\ last.done
  /\ last.obj = "P1" /\ last.deleted >= 2
  /\ "P1" \notin DOMAIN posts /\ "PD" \in DOMAIN posts

-----------------------------------------------------------------------------
(* Claims about the structural gates *)

\* The activity handled in this step fails a structural gate: its actor is
\* missing or has no id, its nested Follow or its Announce has no id, its
\* object is missing or of no supported kind, or the handler returned before
\* its end without an error (the Actor Resolver gave no account).
GateFailed ==
  \/ last'.actor = NoActor
  \/ /\ last'.iri = NullIri
     /\ last'.op \in {"Follow", "Accept", "Reject", "UndoFollow", "Announce"}
  \/ last'.op = "Follow" /\ last'.obj = NoActor
  \/ last'.op = "Delete" /\ last'.obj = NullIri
  \/ last'.obj \in {NoPost, UnsupportedObject, ActorRoute, RemoteUri}
  \/ ~last'.done /\ last'.err = "none"

FollowOfNonLocal ==
  /\ last'.op = "Follow"
  /\ last'.iri # NullIri /\ last'.actor # NoActor /\ last'.obj # NoActor
  /\ \/ last'.obj \notin DOMAIN accounts
     \/ ~accounts[last'.obj].owner

\* C14: a Follow whose target account is unknown locally or has no local
\* owner is ignored: no Follow row is inserted, no Account row is created or
\* updated for the follower, no followersCount is written and no Accept is
\* emitted.
C14_FollowOfNonLocalIgnored ==
  [][FollowOfNonLocal =>
       /\ follows' = follows
       /\ accounts' = accounts
       /\ ~last'.wrote
       /\ last'.sent = 0
       /\ last'.err = "none"]_vars

\* A Follow from R2 to the remote account R1 was handled, and R2 has no
\* Account row.
C14_Witness ==
  /\ last.op = "Follow" /\ last.iri # NullIri
  /\ last.actor = "R2" /\ last.obj = "R1"
  /\ "R1" \in DOMAIN accounts /\ ~accounts["R1"].owner
  /\ "R2" \notin DOMAIN accounts
  /\ follows # {}

-----------------------------------------------------------------------------
(* Claims about listeners handled concurrently *)

\* Some invocation has begun and every invocation that has begun has run to
\* its end.
AllHandlersCompleted ==
  /\ \E h \in Handlers : Began(h)
  /\ \A h \in Handlers : inflight[h].pc \in {"idle", "done"}

\* C15: under every interleaving of concurrently handled Follow and
\* Undo(Follow) activities that target the same account, once all handlers
\* have completed the account's followersCount equals the number of approved
\* Follow rows targeting it. Stated for an account that does not require
\* approval, whose Follow rows are all approved when they are inserted.
C15_CompletedHandlersLeaveApprovedCount ==
  AllHandlersCompleted =>
    \A a \in DOMAIN accounts :
      accounts[a].owner /\ ~accounts[a].protected =>
        accounts[a].followersCount
          = Cardinality(ApprovedFollowers(accounts[a].id))

\* The invocation h is a Follow that inserted the row (f, a), and no other
\* Follow invocation inserted a row with the IRI f.
OnlyInsertOf(h, f, a) ==
  /\ inflight[h].op = "Follow" /\ inflight[h].inserted
  /\ inflight[h].iri = f /\ inflight[h].actor = a
  /\ \A g \in Handlers \ {h} :
       ~(inflight[g].op = "Follow" /\ inflight[g].inserted
         /\ inflight[g].iri = f)

\* The invocation h is an Undo(Follow f) by a that has begun.
UndoOf(h, f, a) ==
  /\ inflight[h].op = "UndoFollow"
  /\ inflight[h].iri = f /\ inflight[h].actor = a

\* After the Follow hf, u1 and u2 are two Undo(Follow) for its row, u1 being
\* the one whose delete statement ran first of all.
TwoUndosOfOneRow(hf, u1, u2) ==
  /\ hf < u1 /\ u1 < u2
  /\ OnlyInsertOf(hf, inflight[hf].iri, inflight[hf].actor)
  /\ UndoOf(u1, inflight[hf].iri, inflight[hf].actor)
  /\ UndoOf(u2, inflight[hf].iri, inflight[hf].actor)
  /\ \A g \in Handlers :
       hf < g /\ g < u1
         => ~UndoOf(g, inflight[hf].iri, inflight[hf].actor)

\* C16: when two Undo(Follow) activities for the same Follow row are handled
\* concurrently, under every interleaving exactly one of them deletes the
\* row; the other deletes zero rows and performs no followersCount write,
\* and neither raises an error.
C16_RacingUndosDeleteOnce ==
  \A hf, u1, u2 \in Handlers :
    TwoUndosOfOneRow(hf, u1, u2) =>
      /\ inflight[u1].deleted = 1
      /\ inflight[u2].deleted = 0
      /\ inflight[u2].pc = "done" /\ ~inflight[u2].wrote
      /\ inflight[u1].err = "none" /\ inflight[u2].err = "none"
      /\ ~\E r \in follows :
            /\ r.iri = inflight[hf].iri
            /\ r.followerId = AccountId(inflight[hf].actor)

\* The second Undo(Follow) has ended with nothing deleted while the first is
\* between its delete and its followersCount write.
C16_Witness ==
  \E hf, u1, u2 \in Handlers :
    /\ TwoUndosOfOneRow(hf, u1, u2)
    /\ inflight[u1].pc \in {"count", "write"}
    /\ inflight[u2].pc = "done" /\ inflight[u2].deleted = 0

\* The posts removed by the step that share the post o.
SharesRemoved(o) == {q \in PostsRemoved : posts[q].sharingId = posts[o].id}

\* C17: in Undo(Announce) the deletion of the share Post rows and the
\* decrement of the original post's sharesCount are committed in one
\* transaction: every step that others can observe removes share rows
\* together with the decrement by their number, the rows a running
\* transaction has deleted are still stored for everyone else, and a
\* transaction that fails applies neither the deletion nor the decrement.
C17_UndoAnnounceCommitsDeleteWithDecrement ==
  /\ [](\A h \in Handlers :
          inflight[h].pc \in {"tx-deleted", "tx-updated", "failed"}
            => ~inflight[h].wrote)
  /\ [][/\ \A o \in DOMAIN posts \cap DOMAIN posts' :
            posts'[o].sharesCount
              = posts[o].sharesCount - Cardinality(SharesRemoved(o))
        /\ \A h \in Handlers :
             inflight'[h].pc \in {"tx-deleted", "tx-updated", "failed"}
             /\ inflight'[h] # inflight[h]
               => /\ posts' = posts
                  /\ inflight'[h].gone \subseteq DOMAIN posts']_vars

\* One Undo(Announce) has committed the deletion of a share row, and another
\* has failed after deleting a share row, which is still stored.
C17_Witness ==
  \E h, g \in Handlers :
    /\ inflight[h].pc = "failed" /\ inflight[h].deleted >= 1
    /\ inflight[h].gone \subseteq DOMAIN posts
    /\ inflight[g].pc = "done" /\ inflight[g].deleted >= 1
    /\ inflight[g].gone \cap DOMAIN posts = {}

-----------------------------------------------------------------------------
(* Claims about Accept and Reject *)

\* The Follow rows with the IRI of the activity handled in this step whose
\* following side is the account of its actor.
RowsNamed ==
  {r \in follows :
     r.iri = last'.iri /\ r.followingId = AccountId(last'.actor)}

\* C18: Accept(Follow f) from actor A sets approvedAt to a non-null value on
\* exactly the Follow rows whose IRI is f's and whose following side is A's
\* account; every other Follow row keeps its approvedAt, so an Accept sent
\* by an actor who is not the follow's target approves nothing.
C18_AcceptApprovesExactlyNamedRows ==
  [][last'.op = "Accept" /\ last'.done =>
       /\ \A r \in RowsNamed : [r EXCEPT !.approved = TRUE] \in follows'
       /\ \A r \in follows \ RowsNamed : r \in follows'
       /\ \A r \in follows' :
            \/ r \in follows \ RowsNamed
            \/ \E n \in RowsNamed : r = [n EXCEPT !.approved = TRUE]
       /\ (RowsNamed = {} => follows' = follows)
       /\ last'.err = "none"]_vars

\* R1, the follower, sent the Accept for its own pending Follow of L1, and
\* the row is still pending.
C18_Witness ==
  /\ last.op = "Accept" /\ last.done /\ last.actor = "R1"
  /\ \E r \in follows :
       /\ r.iri = last.iri /\ ~r.approved
       /\ r.followerId = AccountId("R1") /\ r.followingId = AccountId("L1")

\* The Reject handled in this step passed its gates.
RejectStep == last'.op = "Reject" /\ last'.done

\* C19 as stated: Reject(Follow f) from actor A deletes exactly the Follow
\* rows whose IRI is f's and whose following side is A's account, pending or
\* approved; afterwards no such row exists, every other Follow row is
\* unchanged, and a Reject that matches no row changes nothing and raises no
\* error.
C19_RejectDeletesNamedRowsElseNothing ==
  [][RejectStep =>
       /\ follows' = follows \ RowsNamed
       /\ last'.deleted = Cardinality(RowsNamed)
       /\ last'.err = "none"
       /\ (RowsNamed = {} =>
             /\ follows' = follows
             /\ accounts' = accounts
             /\ posts' = posts
             /\ likes' = likes)]_vars

\* C19 amended: Reject(Follow f) from actor A deletes exactly the Follow
\* rows whose IRI is f's and whose following side is A's account, pending or
\* approved; afterwards no such row exists and every other Follow row is
\* unchanged. A Reject that matches no row raises no error and changes no
\* Follow, Post or Like row and no Account row that was stored; the Actor
\* Resolver may store an Account row for A.
C19_RejectDeletesNamedRowsOnly ==
  [][RejectStep =>
       /\ follows' = follows \ RowsNamed
       /\ last'.deleted = Cardinality(RowsNamed)
       /\ last'.err = "none"
       /\ \A a \in DOMAIN accounts :
            a \in DOMAIN accounts' /\ accounts'[a] = accounts[a]
       /\ DOMAIN accounts' \subseteq DOMAIN accounts \cup {last'.actor}
       /\ (RowsNamed = {} =>
             /\ follows' = follows
             /\ posts' = posts
             /\ likes' = likes)]_vars

\* L1 rejected an approved Follow: its row is gone and another Follow row
\* targeting L1 is left.
C19_Witness ==
  /\ last.op = "Reject" /\ last.done /\ last.actor = "L1"
  /\ last.deleted = 1
  /\ ~accounts["L1"].protected
  /\ ~\E r \in follows : r.iri = last.iri
  /\ \E r \in follows : r.followingId = AccountId("L1") /\ r.approved

\* C20: ownership is enforced before a Delete mutates state: a Delete whose
\* object is a post IRI removes that post only when the Delete's actor is the
\* post's owning account; a Delete sent by any other actor leaves the post in
\* place.
C20_DeleteOfPostNeedsOwner ==
  [][DeleteOfObject /\ last'.obj \in DOMAIN posts =>
       /\ posts[last'.obj].accountId # AccountId(last'.actor)
            => /\ last'.obj \in DOMAIN posts'
               /\ posts'[last'.obj] = posts[last'.obj]
       /\ posts[last'.obj].accountId = AccountId(last'.actor)
            => last'.obj \notin DOMAIN posts']_vars

\* C21: after a Delete that removes an account whose Follow rows are
\* cascade-removed with it, every remaining account's followersCount equals
\* the number of approved Follow rows targeting it.
C21_DeleteOfFollowerKeepsCount ==
  [][DeleteOfSelf /\ follows' # follows =>
       \A a \in DOMAIN accounts' :
         accounts'[a].followersCount
           = Cardinality({r \in follows' :
                            r.followingId = accounts'[a].id /\ r.approved})]_vars

-----------------------------------------------------------------------------
(* Claims about Undo *)

\* The activity handled in this step is an Undo.
UndoStep == last'.op \in {"UndoFollow", "UndoLike", "UndoAnnounce"}

\* Every Follow, Like and Post row stored before the step that is not of the
\* actor x (as follower, liker or author) is stored after it.
RowsOfOthersKept(x) ==
  /\ \A r \in follows : r.followerId # AccountId(x) => r \in follows'
  /\ \A l \in likes : l.accountId # AccountId(x) => l \in likes'
  /\ \A q \in DOMAIN posts :
       posts[q].accountId # AccountId(x) => q \in DOMAIN posts'

\* C22: an Undo whose nested Follow, Like or Announce names an actor
\* different from the Undo's own actor changes no row and no counter, and no
\* Undo sent by an actor X removes a Follow, Like or share row whose
\* follower, liker or sharer is another actor.
C22_UndoOnlyForOwnActivity ==
  [][UndoStep =>
       /\ last'.inner # last'.actor =>
            /\ accounts' = accounts
            /\ follows' = follows
            /\ posts' = posts
            /\ likes' = likes
       /\ RowsOfOthersKept(last'.actor)]_vars

\* R2 sent an Undo of a Follow of R1, whose Follow, Like and share rows are
\* stored.
C22_Witness ==
  /\ last.op = "UndoFollow" /\ last.actor = "R2" /\ last.inner = "R1"
  /\ \E r \in follows :
       r.iri = last.iri /\ r.followerId = AccountId("R1")
  /\ \E l \in likes : l.accountId = AccountId("R1")
  /\ \E q \in DOMAIN posts :
       posts[q].accountId = AccountId("R1") /\ posts[q].sharingId # NoSharing

-----------------------------------------------------------------------------
(* Claims about the life of a Follow row *)

\* C23: whenever the Follow handler emits an Accept for a Follow with IRI f
\* from follower R to local account L, a Follow row with IRI f, follower R
\* and following L with non-null approvedAt is stored, also when the insert
\* hit a conflict and was skipped.
C23_AcceptEmittedImpliesApprovedRow ==
  [][last'.op = "Follow" /\ last'.sent = 1 =>
       \E r \in RowsOf(follows', last'.iri, last'.actor, last'.obj) :
         r.approved]_vars

\* A Follow row is removed by an Undo(Follow), a Reject or a Delete.
RemovesFollows == last'.op \in {"UndoFollow", "Reject", "Delete"}

SameFollow(r, r2) ==
  r2.iri = r.iri /\ r2.followerId = r.followerId
  /\ r2.followingId = r.followingId

\* C24: once a Follow row is approved, every handled activity leaves it
\* stored and approved, unless the activity is an Undo(Follow), a Reject or
\* a Delete and the row is gone after it; no activity makes it pending again.
C24_ApprovedRowStaysUntilRemoved ==
  [][\A r \in follows :
       r.approved =>
         \/ r \in follows'
         \/ RemovesFollows /\ ~\E r2 \in follows' : SameFollow(r, r2)]_vars

\* A Follow was handled for a protected L1, whose rows are inserted pending,
\* and the sender's row toward L1 is approved: the Follow was a duplicate of
\* a row an Accept had approved.
C24_Witness ==
  /\ accounts["L1"].protected
  /\ last.op = "Follow" /\ last.done
  /\ \E r \in follows :
       /\ r.followerId = AccountId(last.actor)
       /\ r.followingId = AccountId("L1")
       /\ r.approved

-----------------------------------------------------------------------------
(* Claims about the OAuth endpoints *)

\* The scopes of every access token row are scopes its application registered.
TokenScopesWithinApplication ==
  \A t \in accessTokens :
    \E a \in Applications : a.id = t.applicationId /\ t.scopes \subseteq a.scopes

\* A POST /oauth/authorize with the decision deny inserts no row.
DenyCreatesNoToken ==
  response'.op = "authorize" /\ response'.decision = "deny"
    => accessTokens' = accessTokens

\* C25: in every state reached through POST /oauth/authorize and POST
\* /oauth/token, the scopes stored on each access token row are a subset of
\* the scopes of the row's application, and a deny decision creates no row.
C25_TokenScopesWithinApplication ==
  /\ []TokenScopesWithinApplication
  /\ [][DenyCreatesNoToken]_vars

\* Both endpoints have stored a row with fewer scopes than the application
\* registered, and a request that passed every check was denied.
C25_Witness ==
  /\ \E t \in accessTokens :
       /\ t.grant_type = "authorization_code"
       /\ \E a \in Applications : a.id = t.applicationId /\ t.scopes # a.scopes
  /\ \E t \in accessTokens : t.grant_type = "client_credentials"
  /\ response.op = "authorize" /\ response.decision = "deny"
  /\ response.error = "access_denied"

\* The rows the code presented to POST /oauth/token names, after the request.
Presented == {t \in accessTokens' : t.code = response'.presented}

\* A request to POST /oauth/token with grant_type authorization_code and a
\* code, by a client that authenticated and whose scope was accepted.
CodeExchange ==
  /\ response'.op = "token"
  /\ response'.grant_type = "authorization_code"
  /\ response'.client # "none"
  /\ response'.error # "invalid_scope"
  /\ response'.presented # NoCode

\* C26: POST /oauth/token with grant_type authorization_code answers
\* invalid_grant, without an access token, when the code presented is not
\* stored, is not of an authorization_code grant, or was issued to an
\* application other than the authenticated client.
C26_ForeignOrUnknownCodeIsInvalidGrant ==
  [][CodeExchange
       /\ \/ Presented = {}
          \/ \E t \in Presented : t.grant_type # "authorization_code"
          \/ \E t \in Presented : t.applicationId # response'.client
     => response'.error = "invalid_grant"
        /\ response'.access_token = "none"]_vars

====
